---- MODULE Spec2Model ----
(***************************************************************************)
(* Model of rust-plurk: the credential store (src/src/secret.rs), the      *)
(* Plurk client with its request signer and PIN handshake                  *)
(* (src/src/plurk.rs) and the stand-alone OAuth1 header builder            *)
(* (src/src/oauth1.rs).                                                    *)
(*                                                                         *)
(* A Rust String is a sequence of one-character strings, so that           *)
(* splitting, prefix tests, percent-encoding and byte-wise ordering are    *)
(* computed as the code computes them.  Option<T> is a sequence of length  *)
(* 0 (None) or 1 (Some).                                                   *)
(***************************************************************************)
EXTENDS Integers, Sequences, FiniteSets, TLC

VARIABLES
    secret,        \* Plurk.secret : Secret {consumer, token}
    ret,           \* what the last call on the client returned (Pending while suspended)
    in_flight,     \* Option: the call suspended at send().await, with its signed request
    resp,          \* Option: what the transport delivered to the call that just resumed
    token_writes,  \* history: the operations that called Plurk::update_token
    handshake,     \* history: the token exchanges whose response carried a token pair
    swallowed,     \* history: some request_auth returned Ok on a body without a token pair
    built,         \* history: the token arguments Plurk::new was called with
    o1,            \* oauth1.rs: Option: the Oauth1 value being built / signed
    o1_in,         \* oauth1.rs: the arguments of the last Oauth1::sign on o1
    o1_prev,       \* oauth1.rs: Option: the previously signed Oauth1 with its arguments
    disk,          \* Option: the file at the credential path, with the Secret written to it
    app            \* app.rs: where main stands, and the client calls it has made

client_vars == <<secret, ret, in_flight, resp, token_writes, handshake, swallowed, built>>

oauth1_vars == <<o1, o1_in, o1_prev>>

store_vars == <<disk>>

app_vars == <<app>>

vars == <<client_vars, oauth1_vars, store_vars, app_vars>>

\* main of app.rs is not running
AppNotRunning == [pc |-> "none", calls |-> << >>]

-----------------------------------------------------------------------------
(* Bounds of the model                                                     *)

\* token-bearing exchange responses accepted in one behaviour
MaxExchanges == 2

-----------------------------------------------------------------------------
(* Text                                                                    *)

None == << >>
Some(x) == <<x>>
IsSome(o) == Len(o) = 1
Unwrap(o) == o[1]

\* the printable ASCII characters, in byte order (0x20 .. 0x7E); "grave"
\* stands for the grave accent 0x60, which a TLA+ string cannot hold
Ascii ==
    <<" ","!","\"","#","$","%","&","'","(",")","*","+",",","-",".","/",
      "0","1","2","3","4","5","6","7","8","9",":",";","<","=",">","?",
      "@","A","B","C","D","E","F","G","H","I","J","K","L","M","N","O",
      "P","Q","R","S","T","U","V","W","X","Y","Z","[","\\","]","^","_",
      "grave","a","b","c","d","e","f","g","h","i","j","k","l","m","n","o",
      "p","q","r","s","t","u","v","w","x","y","z","{","|","}","~">>

Chars == {Ascii[i] : i \in 1..Len(Ascii)}

\* the byte value of a character
Ord == [c \in Chars |-> 31 + (CHOOSE i \in 1..Len(Ascii) : Ascii[i] = c)]

HexDigits == <<"0","1","2","3","4","5","6","7","8","9","A","B","C","D","E","F">>

\* percent_encoding: %XX with upper-case hexadecimal digits
PercentByte(c) == <<"%", HexDigits[(Ord[c] \div 16) + 1], HexDigits[(Ord[c] % 16) + 1]>>

IsAlnum(c) == (Ord[c] >= 48 /\ Ord[c] <= 57) \/ (Ord[c] >= 65 /\ Ord[c] <= 90)
                 \/ (Ord[c] >= 97 /\ Ord[c] <= 122)

\* the characters application/x-www-form-urlencoded leaves alone
FormSafe(c) == IsAlnum(c) \/ c \in {"*", "-", ".", "_"}

Concat(a, b) == a \o b

StartsWith(s, p) == Len(s) >= Len(p) /\ SubSeq(s, 1, Len(p)) = p

\* the concatenation of parts[lo..hi]
RECURSIVE FlattenRange(_, _, _)
FlattenRange(parts, lo, hi) ==
    IF lo > hi THEN << >>
    ELSE IF lo = hi THEN parts[lo]
    ELSE LET mid == (lo + hi) \div 2
         IN  FlattenRange(parts, lo, mid) \o FlattenRange(parts, mid + 1, hi)

Flatten(parts) == FlattenRange(parts, 1, Len(parts))

\* the positions of sep in s
Positions(s, sep) == {i \in 1..Len(s) : s[i] = sep}

\* the k-th smallest element of a set of numbers
Nth(P, k) == CHOOSE p \in P : Cardinality({q \in P : q < p}) = k - 1

\* str::split(sep): the pieces between separators, empty pieces included
Split(s, sep) ==
    LET P == Positions(s, sep)
        n == Cardinality(P)
    IN  [k \in 1..(n + 1) |->
            SubSeq(s, IF k = 1 THEN 1 ELSE Nth(P, k - 1) + 1,
                      IF k = n + 1 THEN Len(s) ELSE Nth(P, k) - 1)]

\* the position of the first sep in s, or 0
Find(s, sep) ==
    LET P == Positions(s, sep)
    IN  IF P = {} THEN 0 ELSE Nth(P, 1)

\* slice::join
RECURSIVE Join(_, _)
Join(parts, sep) ==
    IF Len(parts) = 0 THEN << >>
    ELSE IF Len(parts) = 1 THEN parts[1]
    ELSE parts[1] \o sep \o Join(Tail(parts), sep)

\* byte-wise str ordering: a < b
StrLess(a, b) ==
    LET m == IF Len(a) < Len(b) THEN Len(a) ELSE Len(b)
        D == {i \in 1..m : a[i] # b[i]}
    IN  IF D = {} THEN Len(a) < Len(b)
        ELSE LET d == CHOOSE i \in D : \A j \in D : i <= j
             IN  Ord[a[d]] < Ord[b[d]]

\* url_escape::encode_www_form_urlencoded: every byte outside
\* [A-Za-z0-9*-._] becomes %XX (a space becomes %20)
EscapeByte == [c \in Chars |-> IF FormSafe(c) THEN <<c>> ELSE PercentByte(c)]

encode_www_form_urlencoded(s) == Flatten([i \in 1..Len(s) |-> EscapeByte[s[i]]])

\* form_urlencoded::byte_serialize, as used by serde_urlencoded::to_string:
\* like the above, but a space becomes "+"
SerializeByte == [c \in Chars |-> IF FormSafe(c) THEN <<c>>
                                  ELSE IF c = " " THEN <<"+">>
                                  ELSE PercentByte(c)]

byte_serialize(s) == Flatten([i \in 1..Len(s) |-> SerializeByte[s[i]]])

\* serde_urlencoded::to_string of a Vec<(String, String)>
RECURSIVE SerializePairs(_)
SerializePairs(pairs) ==
    IF Len(pairs) = 0 THEN << >>
    ELSE <<byte_serialize(pairs[1][1]) \o <<"=">> \o byte_serialize(pairs[1][2])>>
         \o SerializePairs(Tail(pairs))

urlencoded_to_string(pairs) == Join(SerializePairs(pairs), <<"&">>)

HexValue == [c \in Chars |->
                IF Ord[c] >= 48 /\ Ord[c] <= 57 THEN Ord[c] - 48
                ELSE IF Ord[c] >= 65 /\ Ord[c] <= 70 THEN Ord[c] - 55
                ELSE IF Ord[c] >= 97 /\ Ord[c] <= 102 THEN Ord[c] - 87
                ELSE -1]

\* percent_decode: a "%" followed by two hexadecimal digits starts an
\* escape; any other "%" stays as it is
EscapeStart(s, i) ==
    /\ i >= 1 /\ i + 2 <= Len(s)
    /\ s[i] = "%" /\ HexValue[s[i + 1]] >= 0 /\ HexValue[s[i + 2]] >= 0

EscapedByte(s, i) == Ascii[16 * HexValue[s[i + 1]] + HexValue[s[i + 2]] - 31]

\* form_urlencoded::parse decoding of one name or value: "+" is a space,
\* %XX is the byte XX
form_decode(s) ==
    Flatten([i \in 1..Len(s) |->
                IF EscapeStart(s, i) THEN <<EscapedByte(s, i)>>
                ELSE IF EscapeStart(s, i - 1) \/ EscapeStart(s, i - 2) THEN << >>
                ELSE IF s[i] = "+" THEN <<" ">>
                ELSE <<s[i]>>])

\* serde_urlencoded::from_str into Vec<(String, String)>: split on "&", skip
\* empty pieces, split each at its first "=", decode name and value
RECURSIVE ParsePieces(_)
ParsePieces(pieces) ==
    IF Len(pieces) = 0 THEN << >>
    ELSE LET p == pieces[1]
             eq == Find(p, "=")
         IN  (IF Len(p) = 0 THEN << >>
              ELSE IF eq = 0 THEN << <<form_decode(p), << >> >> >>
              ELSE << <<form_decode(SubSeq(p, 1, eq - 1)),
                        form_decode(SubSeq(p, eq + 1, Len(p)))>> >>)
             \o ParsePieces(Tail(pieces))

urlencoded_from_str(raw) == ParsePieces(Split(raw, "&"))

\* querystring::querify: split on "&", then each piece on "=", keeping the
\* first two parts; a piece without "=" is dropped; nothing is decoded
RECURSIVE QuerifyPieces(_)
QuerifyPieces(pieces) ==
    IF Len(pieces) = 0 THEN << >>
    ELSE LET parts == Split(pieces[1], "=")
         IN  (IF Len(parts) >= 2 THEN << <<parts[1], parts[2]>> >> ELSE << >>)
             \o QuerifyPieces(Tail(pieces))

querify(raw) == QuerifyPieces(Split(raw, "&"))

\* [T]::sort_by(|a, b| a.0.cmp(&b.0)): a stable sort on the key alone
SortRank(pairs, i) ==
    1 + Cardinality({j \in 1..Len(pairs) :
                        \/ StrLess(pairs[j][1], pairs[i][1])
                        \/ j < i /\ pairs[j][1] = pairs[i][1]})

sort_by_key(pairs) ==
    LET at == [i \in 1..Len(pairs) |-> SortRank(pairs, i)]
        order == {<<at[i], i>> : i \in 1..Len(pairs)}
    IN  [k \in 1..Len(pairs) |-> pairs[(CHOOSE o \in order : o[1] = k)[2]]]

\* Iterator::find_map over the pairs: the value of the first pair named key
RECURSIVE FirstValueFrom(_, _, _)
FirstValueFrom(pairs, key, i) ==
    IF i > Len(pairs) THEN None
    ELSE IF pairs[i][1] = key THEN Some(pairs[i][2])
    ELSE FirstValueFrom(pairs, key, i + 1)

\* HashMap::get after collecting the pairs: a later pair replaces an earlier
\* one of the same name
RECURSIVE LastValueFrom(_, _, _)
LastValueFrom(pairs, key, i) ==
    IF i < 1 THEN None
    ELSE IF pairs[i][1] = key THEN Some(pairs[i][2])
    ELSE LastValueFrom(pairs, key, i - 1)

\* HMAC-SHA1 of the message under the key, base64-encoded and escaped: the
\* digest is not computed; it is one symbol, a one-to-one image of the key
\* and the message
Digest(sign_url, sign_key) == ToString(<<sign_key, sign_url>>)

-----------------------------------------------------------------------------
(* Program constants and fixed texts                                        *)

\* src/src/plurk.rs:18-21
BASE_URL ==
    <<"h","t","t","p","s",":","/","/","w","w","w",".","p","l","u","r","k",".","c","o","m">>
REQUEST_TOKEN_URL ==
    <<"/","O","A","u","t","h","/","r","e","q","u","e","s","t","_","t","o","k","e","n">>
AUTHORIZE_URL == <<"/","O","A","u","t","h","/","a","u","t","h","o","r","i","z","e">>
ACCESS_TOKEN_URL ==
    <<"/","O","A","u","t","h","/","a","c","c","e","s","s","_","t","o","k","e","n">>
\* parameter names and fixed values used by the signer
K_oauth_ == <<"o","a","u","t","h","_">>
K_oauth_nonce == <<"o","a","u","t","h","_","n","o","n","c","e">>
K_oauth_timestamp == <<"o","a","u","t","h","_","t","i","m","e","s","t","a","m","p">>
K_oauth_signature_method ==
    <<"o","a","u","t","h","_","s","i","g","n","a","t","u","r","e","_","m","e","t","h","o","d">>
K_oauth_version == <<"o","a","u","t","h","_","v","e","r","s","i","o","n">>
K_oauth_consumer_key == <<"o","a","u","t","h","_","c","o","n","s","u","m","e","r","_","k","e","y">>
K_oauth_token == <<"o","a","u","t","h","_","t","o","k","e","n">>
K_oauth_token_secret == <<"o","a","u","t","h","_","t","o","k","e","n","_","s","e","c","r","e","t">>
K_oauth_signature == <<"o","a","u","t","h","_","s","i","g","n","a","t","u","r","e">>
K_oauth_callback == <<"o","a","u","t","h","_","c","a","l","l","b","a","c","k">>
K_oauth_verifier == <<"o","a","u","t","h","_","v","e","r","i","f","i","e","r">>
V_HMAC_SHA1 == <<"H","M","A","C","-","S","H","A","1">>
V_1_0 == <<"1",".","0">>
V_oob == <<"o","o","b">>
S_POST == <<"P","O","S","T">>
S_OAuth == <<"O","A","u","t","h">>
S_auth_query == <<"?","o","a","u","t","h","_","t","o","k","e","n","=">>

-----------------------------------------------------------------------------
(* src/src/secret.rs                                                       *)

SecretPair(key, sec) == [key |-> key, secret |-> sec]

\* a Secret::new that makes a token out of either part
Secret_new_either(consumer_key, consumer_secret, token_key, token_secret) ==
    [consumer |-> SecretPair(consumer_key, consumer_secret),
     token    |-> IF IsSome(token_key) \/ IsSome(token_secret)
                  THEN Some(SecretPair(IF IsSome(token_key) THEN Unwrap(token_key) ELSE << >>,
                                       IF IsSome(token_secret) THEN Unwrap(token_secret)
                                       ELSE << >>))
                  ELSE None]

\* Secret::new: a token only when both its key and its secret are given
Secret_new(consumer_key, consumer_secret, token_key, token_secret) ==
    [consumer |-> SecretPair(consumer_key, consumer_secret),
     token    |-> IF IsSome(token_key) /\ IsSome(token_secret)
                  THEN Some(SecretPair(Unwrap(token_key), Unwrap(token_secret)))
                  ELSE None]

\* Secret::update_token (by value)
Secret_update_token(self, token_key, token_secret) ==
    [consumer |-> self.consumer, token |-> Some(SecretPair(token_key, token_secret))]

\* Secret::update_token_mut (in place)
update_token_mut(self, token_key, token_secret) ==
    [self EXCEPT !.token = Some(SecretPair(token_key, token_secret))]

get_consumer_key(self) == self.consumer.key

get_token_key(self) == IF IsSome(self.token) THEN Some(Unwrap(self.token).key) ELSE None

\* a signing key that leaves the token secret out
get_sign_secret_consumer_only(self) == self.consumer.secret \o <<"&">>

get_sign_secret(self) ==
    IF IsSome(self.token)
    THEN self.consumer.secret \o <<"&">> \o Unwrap(self.token).secret
    ELSE self.consumer.secret \o <<"&">>

T_consumer == <<"c","o","n","s","u","m","e","r">>
T_token == <<"t","o","k","e","n">>
T_key == <<"k","e","y">>
T_secret == <<"s","e","c","r","e","t">>
T_assign == <<" ", "=", " ">>

\* a TOML basic string: quotation marks and backslashes escaped
RECURSIVE toml_escape(_)
toml_escape(s) ==
    IF Len(s) = 0 THEN << >>
    ELSE (IF s[1] \in {"\"", "\\"} THEN <<"\\", s[1]>> ELSE <<s[1]>>) \o toml_escape(Tail(s))

toml_quote(s) == <<"\"">> \o toml_escape(s) \o <<"\"">>

\* one table of the document: its header and its two strings
toml_table(name, pair) ==
    <<"[">> \o name \o <<"]", "\n">>
    \o T_key \o T_assign \o toml_quote(pair.key) \o <<"\n">>
    \o T_secret \o T_assign \o toml_quote(pair.secret) \o <<"\n">>

\* a serialisation that leaves the token table out
toml_to_string_consumer_only(self) == toml_table(T_consumer, self.consumer)

\* toml::to_string(&Secret): the consumer table and, when a token is held,
\* the token table; a None field is left out
toml_to_string(self) ==
    toml_table(T_consumer, self.consumer)
    \o (IF IsSome(self.token) THEN <<"\n">> \o toml_table(T_token, Unwrap(self.token))
        ELSE << >>)

\* the content of a basic string is well formed from position i on
RECURSIVE toml_basic_ok(_, _)
toml_basic_ok(s, i) ==
    IF i > Len(s) THEN TRUE
    ELSE IF s[i] = "\"" THEN FALSE
    ELSE IF s[i] = "\\"
         THEN i < Len(s) /\ s[i + 1] \in {"\"", "\\"} /\ toml_basic_ok(s, i + 2)
    ELSE toml_basic_ok(s, i + 1)

RECURSIVE toml_unescape(_, _)
toml_unescape(s, i) ==
    IF i > Len(s) THEN << >>
    ELSE IF s[i] = "\\" THEN <<s[i + 1]>> \o toml_unescape(s, i + 2)
    ELSE <<s[i]>> \o toml_unescape(s, i + 1)

\* the String a quoted value stands for, or None when it is malformed
toml_value(v) ==
    IF Len(v) >= 2 /\ v[1] = "\"" /\ v[Len(v)] = "\""
       /\ toml_basic_ok(SubSeq(v, 2, Len(v) - 1), 1)
    THEN Some(toml_unescape(SubSeq(v, 2, Len(v) - 1), 1))
    ELSE None

\* the lines of the table called name: after its header, up to the next header
toml_lines_of(lines, name) ==
    LET H == {i \in 1..Len(lines) : lines[i] = <<"[">> \o name \o <<"]">>}
        start == CHOOSE i \in H : \A j \in H : i <= j
        later == {i \in (start + 1)..Len(lines) : Len(lines[i]) > 0 /\ lines[i][1] = "["}
        stop == IF later = {} THEN Len(lines) + 1
                ELSE CHOOSE i \in later : \A j \in later : i <= j
    IN  IF H = {} THEN None ELSE Some(SubSeq(lines, start + 1, stop - 1))

\* the value of field in the lines of a table, or None
toml_field(tlines, field) ==
    LET F == {i \in 1..Len(tlines) : StartsWith(tlines[i], field \o T_assign)}
        at == CHOOSE i \in F : \A j \in F : i <= j
    IN  IF F = {} THEN None
        ELSE toml_value(SubSeq(tlines[at], Len(field) + Len(T_assign) + 1, Len(tlines[at])))

\* a table as a SecretPair: [res, val]
toml_pair(tlines) ==
    LET k == toml_field(tlines, T_key)
        s == toml_field(tlines, T_secret)
    IN  IF IsSome(k) /\ IsSome(s) THEN Some(SecretPair(Unwrap(k), Unwrap(s))) ELSE None

\* toml::from_str::<Secret>(text): consumer is required, token is optional
toml_from_str(text) ==
    LET lines == Split(text, "\n")
        ctab == toml_lines_of(lines, T_consumer)
        ttab == toml_lines_of(lines, T_token)
        cpair == IF IsSome(ctab) THEN toml_pair(Unwrap(ctab)) ELSE None
        tpair == IF IsSome(ttab) THEN toml_pair(Unwrap(ttab)) ELSE None
    IN  IF ~IsSome(cpair) \/ (IsSome(ttab) /\ ~IsSome(tpair))
        THEN [res |-> "TOMLError", val |-> None]
        ELSE [res |-> "Ok", val |-> Some([consumer |-> Unwrap(cpair), token |-> tpair])]

-----------------------------------------------------------------------------
(* src/src/plurk.rs                                                        *)

\* Oauth1::new (plurk.rs): the four generated parameters, in this order
Oauth1_new(nonce, timestamp) ==
    << <<K_oauth_nonce, nonce>>,
       <<K_oauth_timestamp, timestamp>>,
       <<K_oauth_signature_method, V_HMAC_SHA1>>,
       <<K_oauth_version, V_1_0>> >>

Oauth1_set_sign(inner, sig) == Append(inner, <<K_oauth_signature, sig>>)

Oauth1_extend(inner, items) == inner \o items

Oauth1_sort(inner) == sort_by_key(inner)

\* the pairs whose name starts with p (keep = TRUE) or does not (keep = FALSE)
RECURSIVE FilterPrefix(_, _, _)
FilterPrefix(pairs, p, keep) ==
    IF Len(pairs) = 0 THEN << >>
    ELSE (IF StartsWith(pairs[1][1], p) = keep THEN <<pairs[1]>> ELSE << >>)
         \o FilterPrefix(Tail(pairs), p, keep)

\* format!(" {}=\"{}\",", k, v) for every pair, collected into one String
RECURSIVE HeaderItems(_)
HeaderItems(pairs) ==
    IF Len(pairs) = 0 THEN << >>
    ELSE <<" ">> \o pairs[1][1] \o <<"=", "\"">> \o pairs[1][2] \o <<"\"", ",">>
         \o HeaderItems(Tail(pairs))

\* String::pop
Pop(s) == IF Len(s) = 0 THEN s ELSE SubSeq(s, 1, Len(s) - 1)

\* a to_header that keeps the comma after the last item
Oauth1_to_header_unpopped(inner) ==
    S_OAuth \o HeaderItems(FilterPrefix(inner, K_oauth_, TRUE))

\* Oauth1::to_header (plurk.rs)
Oauth1_to_header(inner) ==
    S_OAuth \o Pop(HeaderItems(FilterPrefix(inner, K_oauth_, TRUE)))

hmac_sha1_sign(sign_url, sign_key) == <<Digest(sign_url, sign_key)>>

is_auth(self) == IsSome(get_token_key(self))

\* an update_token that drops the pair it is given
update_token_dropped(self, token_key, token_secret) == self

\* an update_token that writes the pair over the consumer pair
update_token_over_consumer(self, token_key, token_secret) ==
    [consumer |-> SecretPair(token_key, token_secret), token |-> self.token]

\* an update_token that forgets the token held
update_token_clearing(self, token_key, token_secret) == [self EXCEPT !.token = None]

update_token(self, token_key, token_secret) == update_token_mut(self, token_key, token_secret)

prep_cmd(api) == BASE_URL \o api

\* a to_oauth that pushes the consumer key even when it is empty
to_oauth_unconditional(self) ==
    << <<K_oauth_consumer_key, get_consumer_key(self)>> >>
    \o (IF IsSome(get_token_key(self))
        THEN << <<K_oauth_token, Unwrap(get_token_key(self))>> >> ELSE << >>)

\* Plurk::to_oauth: the consumer key when it is not empty, the token key
\* when a token is held
to_oauth(self) ==
    (IF Len(get_consumer_key(self)) # 0
     THEN << <<K_oauth_consumer_key, get_consumer_key(self)>> >> ELSE << >>)
    \o (IF IsSome(get_token_key(self))
        THEN << <<K_oauth_token, Unwrap(get_token_key(self))>> >> ELSE << >>)

parse_query(raw) == querify(raw)

\* &url[..Position::AfterPath]: the URL up to its query or fragment
AfterPath(url) ==
    LET q == Find(url, "?")
        f == Find(url, "#")
        cut == IF q = 0 THEN f ELSE IF f = 0 THEN q ELSE IF q < f THEN q ELSE f
    IN  IF cut = 0 THEN url ELSE SubSeq(url, 1, cut - 1)

\* Plurk::sign: builder is the request [method, url, body]; the result is the request
\* with its body rewritten and its Authorization header set.  signing_set
\* records auth.inner as it was serialised into the signature base string.
sign(self, builder, nonce, timestamp) ==
    LET auth0 == Oauth1_extend(Oauth1_new(nonce, timestamp), to_oauth(self))
        parsed == IF IsSome(builder.body) THEN parse_query(Unwrap(builder.body)) ELSE << >>
        auth1 == IF IsSome(builder.body) THEN Oauth1_extend(auth0, parsed) ELSE auth0
        new_body == IF IsSome(builder.body)
                    THEN Some(urlencoded_to_string(FilterPrefix(parsed, K_oauth_, FALSE)))
                    ELSE None
        auth2 == Oauth1_sort(auth1)
        base_url == encode_www_form_urlencoded(AfterPath(builder.url))
        query_part == encode_www_form_urlencoded(urlencoded_to_string(auth2))
        sign_url == builder.method \o <<"&">> \o base_url \o <<"&">> \o query_part
        sig == hmac_sha1_sign(sign_url, get_sign_secret(self))
    IN  [method |-> builder.method, url |-> builder.url, body |-> new_body,
         header |-> Oauth1_to_header(Oauth1_set_sign(auth2, sig)),
         signing_set |-> auth2]

\* Plurk::request up to the send, without a file: POST to BASE_URL + api,
\* the query as a form body (RequestBuilder::form), signed
request(self, api, query, nonce, timestamp) ==
    sign(self,
         [method |-> S_POST, url |-> prep_cmd(api),
          body |-> IF IsSome(query) THEN Some(urlencoded_to_string(Unwrap(query))) ELSE None],
         nonce, timestamp)

\* a get_auth_url that answers with a URL even when no token is held
get_auth_url_lenient(self) ==
    [res |-> "Ok",
     val |-> prep_cmd(AUTHORIZE_URL) \o S_auth_query
             \o (IF IsSome(get_token_key(self)) THEN Unwrap(get_token_key(self)) ELSE << >>)]

get_auth_url(self) ==
    IF IsSome(get_token_key(self))
    THEN [res |-> "Ok",
          val |-> prep_cmd(AUTHORIZE_URL) \o S_auth_query \o Unwrap(get_token_key(self))]
    ELSE [res |-> "AuthError", val |-> << >>]

\* a parse_oauth_token that is content with either field
parse_oauth_token_either(raw) ==
    LET qs == querify(raw)
        key == LastValueFrom(qs, K_oauth_token, Len(qs))
        sec == LastValueFrom(qs, K_oauth_token_secret, Len(qs))
    IN  IF IsSome(key) \/ IsSome(sec)
        THEN Some(<<IF IsSome(key) THEN Unwrap(key) ELSE << >>,
                    IF IsSome(sec) THEN Unwrap(sec) ELSE << >> >>)
        ELSE None

S_Plurk_API == <<"P","l","u","r","k"," ","A","P","I"," ">>
S_Authorized == <<"A","u","t","h","o","r","i","z","e","d">>
S_Unauthorized == <<"U","n","a","u","t","h","o","r","i","z","e","d">>

\* impl Display for Plurk: "Plurk API {} ({})"
Plurk_fmt(self) ==
    S_Plurk_API \o get_consumer_key(self) \o <<" ", "(">>
    \o (IF is_auth(self) THEN S_Authorized ELSE S_Unauthorized) \o <<")">>

\* Plurk::parse_oauth_token: both fields or nothing
parse_oauth_token(raw) ==
    LET qs == querify(raw)
        key == LastValueFrom(qs, K_oauth_token, Len(qs))
        sec == LastValueFrom(qs, K_oauth_token_secret, Len(qs))
    IN  IF IsSome(key) /\ IsSome(sec) THEN Some(<<Unwrap(key), Unwrap(sec)>>) ELSE None

-----------------------------------------------------------------------------
(* src/src/oauth1.rs                                                       *)

S_realm == <<"r","e","a","l","m","=">>

\* Oauth1::new (oauth1.rs), with the values gen_nonce and gen_timestamp return
O1_new(secret_, nonce, timestamp) ==
    [oauth_consumer_key     |-> get_consumer_key(secret_),
     oauth_token            |-> get_token_key(secret_),
     oauth_signature_method |-> V_HMAC_SHA1,
     oauth_signature        |-> << >>,
     oauth_timestamp        |-> timestamp,
     oauth_nonce            |-> nonce,
     oauth_version          |-> V_1_0,
     oauth_callback         |-> None,
     oauth_verifier         |-> None,
     realm                  |-> None,
     sign_key               |-> get_sign_secret(secret_)]

\* Oauth1::to_query_pair
O1_to_query_pair(self) ==
    (IF IsSome(self.oauth_callback)
     THEN << <<K_oauth_callback, Unwrap(self.oauth_callback)>> >> ELSE << >>)
    \o << <<K_oauth_consumer_key, self.oauth_consumer_key>>,
          <<K_oauth_nonce, self.oauth_nonce>>,
          <<K_oauth_signature_method, self.oauth_signature_method>>,
          <<K_oauth_timestamp, self.oauth_timestamp>> >>
    \o (IF IsSome(self.oauth_token)
        THEN << <<K_oauth_token, Unwrap(self.oauth_token)>> >> ELSE << >>)
    \o (IF IsSome(self.oauth_verifier)
        THEN << <<K_oauth_verifier, Unwrap(self.oauth_verifier)>> >> ELSE << >>)
    \o << <<K_oauth_version, self.oauth_version>> >>

\* format!("{}=\"{}\", ", name, value)
HeaderItem(name, value) == name \o <<"=", "\"">> \o value \o <<"\"", ",", " ">>

\* Oauth1::to_header (oauth1.rs)
O1_to_header(self) ==
    Pop(Pop(
        S_OAuth \o <<" ">>
        \o (IF IsSome(self.realm) THEN S_realm \o <<"\"">> \o Unwrap(self.realm) \o <<"\"", ",", " ">>
            ELSE << >>)
        \o (IF IsSome(self.oauth_callback)
            THEN HeaderItem(K_oauth_callback, Unwrap(self.oauth_callback)) ELSE << >>)
        \o HeaderItem(K_oauth_consumer_key, self.oauth_consumer_key)
        \o HeaderItem(K_oauth_nonce, self.oauth_nonce)
        \o HeaderItem(K_oauth_signature, self.oauth_signature)
        \o HeaderItem(K_oauth_signature_method, self.oauth_signature_method)
        \o HeaderItem(K_oauth_timestamp, self.oauth_timestamp)
        \o (IF IsSome(self.oauth_token)
            THEN HeaderItem(K_oauth_token, Unwrap(self.oauth_token)) ELSE << >>)
        \o (IF IsSome(self.oauth_verifier)
            THEN HeaderItem(K_oauth_verifier, Unwrap(self.oauth_verifier)) ELSE << >>)
        \o HeaderItem(K_oauth_version, self.oauth_version)))

\* Oauth1::get_value_by_key
get_value_by_key(key, data) == FirstValueFrom(data, key, 1)

\* Oauth1::hmac_sha1_sign
O1_hmac_sha1_sign(sign_url, sign_key) == <<Digest(sign_url, sign_key)>>

\* the names Oauth1 has a field for
O1_known_names ==
    {K_oauth_callback, K_oauth_consumer_key, K_oauth_nonce, K_oauth_signature_method,
     K_oauth_timestamp, K_oauth_token, K_oauth_verifier, K_oauth_version}

\* the pairs of the query that are not oauth_* or have a known name
RECURSIVE KnownOnly(_)
KnownOnly(pairs) ==
    IF Len(pairs) = 0 THEN << >>
    ELSE (IF StartsWith(pairs[1][1], K_oauth_) /\ pairs[1][1] \notin O1_known_names
          THEN << >> ELSE <<pairs[1]>>) \o KnownOnly(Tail(pairs))

\* a base string that leaves out the oauth_* parameters Oauth1 has no field for
O1_sign_base_known_only(self, method, uri, query) ==
    LET query_poll == sort_by_key(KnownOnly(urlencoded_from_str(query))
                                  \o O1_to_query_pair(self))
    IN  method \o <<"&">> \o encode_www_form_urlencoded(uri) \o <<"&">>
        \o encode_www_form_urlencoded(urlencoded_to_string(query_poll))

\* the base string Oauth1::sign hands to hmac_sha1_sign
O1_sign_base(self, method, uri, query) ==
    LET query_poll == sort_by_key(urlencoded_from_str(query) \o O1_to_query_pair(self))
    IN  method \o <<"&">> \o encode_www_form_urlencoded(uri) \o <<"&">>
        \o encode_www_form_urlencoded(urlencoded_to_string(query_poll))

\* what Oauth1::sign computes from the fields it reads: the signature and
\* the callback and verifier found in the merged, sorted parameters
O1_signed_fields(self, method, uri, query) ==
    LET query_poll == sort_by_key(urlencoded_from_str(query) \o O1_to_query_pair(self))
    IN  [oauth_signature |-> O1_hmac_sha1_sign(O1_sign_base(self, method, uri, query),
                                               self.sign_key),
         oauth_callback  |-> get_value_by_key(K_oauth_callback, query_poll),
         oauth_verifier  |-> get_value_by_key(K_oauth_verifier, query_poll)]

\* Oauth1::sign, given what it computed
O1_sign_with(self, uri, fields) ==
    [self EXCEPT
        !.oauth_signature = fields.oauth_signature,
        !.oauth_callback = fields.oauth_callback,
        !.oauth_verifier = fields.oauth_verifier,
        !.realm = Some(uri)]

test_set_callback(self, v) == [self EXCEPT !.oauth_callback = Some(v)]

test_set_verifier(self, v) == [self EXCEPT !.oauth_verifier = Some(v)]

test_set_nonce(self, v) == [self EXCEPT !.oauth_nonce = v]

test_set_timestamp(self, v) == [self EXCEPT !.oauth_timestamp = v]

-----------------------------------------------------------------------------
(* Inputs                                                                  *)

c1 == <<"c","1">>
c2 == <<"c","2">>
t1 == <<"t","1">>
t2 == <<"t","2">>
tA == <<"t","A">>
sA == <<"s","A">>
tB == <<"t","B">>
sB == <<"s","B">>
Nonce1 == <<"a","a","b","b","c","c","1","2","3","0">>
Nonce2 == <<"Z","z","9","Y","y","8","X","x","7","W">>
Time1 == <<"1","1","9","1","2","4","2","0","9","6">>
Pin1 == <<"5","5","6","6">>
Api1 == <<"/","A","P","P","/","U","s","e","r","s","/","m","e">>

Body_pair ==
    <<"o","a","u","t","h","_","t","o","k","e","n","=","t","A","&","o","a","u","t","h","_","t",
      "o","k","e","n","_","s","e","c","r","e","t","=","s","A">>
Body_pair_rev ==
    <<"o","a","u","t","h","_","t","o","k","e","n","_","s","e","c","r","e","t","=","s","B","&",
      "x","=","1","&","o","a","u","t","h","_","t","o","k","e","n","=","t","B">>
Body_pair_dup ==
    <<"o","a","u","t","h","_","t","o","k","e","n","=","t","1","&","o","a","u","t","h","_","t",
      "o","k","e","n","_","s","e","c","r","e","t","=","s","A","&","o","a","u","t","h","_","t",
      "o","k","e","n","=","t","A">>
Body_key_only == <<"o","a","u","t","h","_","t","o","k","e","n","=","t","A">>
Body_secret_only ==
    <<"o","a","u","t","h","_","t","o","k","e","n","_","s","e","c","r","e","t","=","s","A">>
Body_no_equals ==
    <<"o","a","u","t","h","_","t","o","k","e","n","&","o","a","u","t","h","_","t","o","k","e",
      "n","_","s","e","c","r","e","t">>
Body_error ==
    <<"4","0","0","0","4",":","i","n","v","a","l","i","d"," ","=","s","i","g","n","a","t","u",
      "r","e">>
Body_empty == << >>

ConsumerKeys == {<< >>, c1}
ConsumerSecrets == {c2}
TokenKeys == {None, Some(t1)}
TokenSecrets == {None, Some(t2)}

\* gen_nonce(10) and gen_timestamp(): what the generators may return
Nonces == {Nonce1, Nonce2}
Timestamps == {Time1}

Pins == {Pin1}
Apis == {Api1}

\* response bodies that carry both oauth_token and oauth_token_secret
TokenBodies == {Body_pair, Body_pair_rev, Body_pair_dup}
\* response bodies of any other shape
OtherBodies == {Body_key_only, Body_secret_only, Body_no_equals, Body_error, Body_empty}

\* what the transport does with a request: the send fails, reading the
\* body fails, or a body comes back (whatever the status)
Transport ==
    {[kind |-> "send_err", body |-> << >>], [kind |-> "text_err", body |-> << >>]}
    \cup {[kind |-> "body", body |-> b] : b \in TokenBodies \cup OtherBodies}

\* what the transport does with an API request
ApiTransport ==
    {[kind |-> "send_err", body |-> << >>]}
    \cup {[kind |-> "body", body |-> b] : b \in {Body_pair, Body_error}}

\* the caller's form parameters for Plurk::request
Queries ==
    { None,
      Some(<< >>),
      Some(<< <<<<"b">>, <<"2">>>>, <<<<"a">>, <<"1">>>> >>),
      Some(<< <<<<"q">>, <<"a", " ", "b">>>> >>),
      Some(<< <<K_oauth_nonce, <<"x">>>>, <<<<"a">>, <<"1">>>> >>),
      Some(<< <<K_oauth_token, <<"t", "z">>>> >>),
      Some(<< <<K_oauth_consumer_key, <<"c", "z">>>>, <<K_oauth_callback, <<"u">>>> >>),
      Some(<< <<<<"o", "o", "o">>, <<"3">>>>, <<<<"o", "a", "u", "t", "h", "_", "u">>, <<"1">>>>,
              <<<<"a">>, <<"2">>>>, <<<<"a">>, <<"1">>>> >>) }

-----------------------------------------------------------------------------
(* The client as a state machine                                           *)

Returned(op, res, val) == [op |-> op, res |-> res, val |-> val]

Init ==
    /\ \E ck \in ConsumerKeys, cs \in ConsumerSecrets, tk \in TokenKeys, ts \in TokenSecrets :
           /\ secret = Secret_new(ck, cs, tk, ts)
           /\ built = [token_key |-> tk, token_secret |-> ts]
    /\ ret = Returned("new", "Ok", << >>)
    /\ in_flight = None
    /\ resp = None
    /\ token_writes = << >>
    /\ handshake = << >>
    /\ swallowed = FALSE
    /\ o1 = None
    /\ o1_in = None
    /\ o1_prev = None
    /\ disk = None
    /\ app = AppNotRunning

\* the credentials the client can come to hold
Secrets ==
    {[consumer |-> SecretPair(ck, cs), token |-> tok] :
        ck \in ConsumerKeys, cs \in ConsumerSecrets,
        tok \in {None} \cup {Some(SecretPair(k, s)) : k \in {t1, tA, tB}, s \in {t2, sA, sB}}}

\* the calls of Plurk::request the model makes: by request_auth, by
\* verify_auth and by the user of the client
Calls ==
    [api : {REQUEST_TOKEN_URL}, query : {Some(<< <<K_oauth_callback, V_oob>> >>)},
     nonce : Nonces, timestamp : Timestamps]
    \cup [api : {ACCESS_TOKEN_URL}, query : {Some(<< <<K_oauth_verifier, pin>> >>) : pin \in Pins},
          nonce : Nonces, timestamp : Timestamps]
    \cup [api : Apis, query : Queries, nonce : Nonces, timestamp : Timestamps]

\* Plurk::request on every credential and call, computed once
SignedRequests ==
    {<<self, {<<c, request(self, c.api, c.query, c.nonce, c.timestamp)>> : c \in Calls}>> :
        self \in Secrets}

SignedRequest(self, c) ==
    IF self \in Secrets /\ c \in Calls
    THEN LET row == (CHOOSE e \in SignedRequests : e[1] = self)[2]
         IN  (CHOOSE e \in row : e[1] = c)[2]
    ELSE request(self, c.api, c.query, c.nonce, c.timestamp)

\* a send that refuses with AuthError when no token is held, except for the
\* request-token exchange
Send_token_required(op, c) ==
    /\ in_flight = None
    /\ resp' = None
    /\ IF op # "request_auth" /\ ~IsSome(secret.token)
       THEN /\ ret' = Returned(op, "AuthError", << >>)
            /\ in_flight' = in_flight
       ELSE /\ ret' = Returned(op, "Pending", << >>)
            /\ in_flight' = Some([op |-> op, query |-> c.query,
                                  req |-> SignedRequest(secret, c)])
    /\ UNCHANGED <<secret, token_writes, handshake, swallowed, built, oauth1_vars, store_vars>>

\* a call builds and signs its request and suspends at send().await
Send(op, c) ==
    /\ in_flight = None
    /\ in_flight' = Some([op |-> op, query |-> c.query, req |-> SignedRequest(secret, c)])
    /\ ret' = Returned(op, "Pending", << >>)
    /\ resp' = None
    /\ UNCHANGED <<secret, token_writes, handshake, swallowed, built, oauth1_vars, store_vars>>

\* Plurk::request_auth, up to the send
RequestAuth ==
    /\ Len(handshake) < MaxExchanges
    /\ Len(token_writes) < MaxExchanges
    /\ \E nonce \in Nonces, ts \in Timestamps :
           Send("request_auth",
                [api |-> REQUEST_TOKEN_URL, query |-> Some(<< <<K_oauth_callback, V_oob>> >>),
                 nonce |-> nonce, timestamp |-> ts])
    /\ UNCHANGED app_vars

\* Plurk::verify_auth, up to the send
VerifyAuth ==
    /\ Len(handshake) < MaxExchanges
    /\ Len(token_writes) < MaxExchanges
    /\ \E pin \in Pins, nonce \in Nonces, ts \in Timestamps :
           Send("verify_auth",
                [api |-> ACCESS_TOKEN_URL, query |-> Some(<< <<K_oauth_verifier, pin>> >>),
                 nonce |-> nonce, timestamp |-> ts])
    /\ UNCHANGED app_vars

\* Plurk::request called by the user of the client, up to the send
Request ==
    /\ \E api \in Apis, query \in Queries, nonce \in Nonces, ts \in Timestamps :
           Send("request", [api |-> api, query |-> query, nonce |-> nonce, timestamp |-> ts])
    /\ UNCHANGED app_vars

\* exchanges that take a transport failure for an empty body and go on
ExchangeResume_swallowing ==
    /\ IsSome(in_flight)
    /\ Unwrap(in_flight).op \in {"request_auth", "verify_auth"}
    /\ \E t \in Transport :
        LET op == Unwrap(in_flight).op
            parsed == parse_oauth_token(t.body)
        IN  /\ resp' = Some(t)
            /\ in_flight' = None
            /\ secret' = IF IsSome(parsed)
                         THEN update_token(secret, Unwrap(parsed)[1], Unwrap(parsed)[2])
                         ELSE secret
            /\ token_writes' = IF IsSome(parsed) THEN Append(token_writes, op)
                               ELSE token_writes
            /\ handshake' = IF t.body \in TokenBodies THEN Append(handshake, op)
                            ELSE handshake
            /\ swallowed' = (swallowed \/ (op = "request_auth"
                                            /\ t.body \notin TokenBodies))
            /\ ret' = Returned(op, "Ok", << >>)
    /\ UNCHANGED <<built, oauth1_vars, store_vars, app_vars>>

\* request_auth and verify_auth from the send on: a transport error is
\* returned at once; a body is parsed and, when it holds a token pair, the
\* token is replaced; then Ok(())
ExchangeReturns ==
    /\ IsSome(in_flight)
    /\ Unwrap(in_flight).op \in {"request_auth", "verify_auth"}
    /\ \E t \in Transport :
        LET op == Unwrap(in_flight).op
        IN  /\ resp' = Some(t)
            /\ in_flight' = None
            /\ IF t.kind # "body"
               THEN /\ ret' = Returned(op, "ReqwestError", << >>)
                    /\ UNCHANGED <<secret, token_writes, handshake, swallowed>>
               ELSE LET parsed == parse_oauth_token(t.body)
                    IN  /\ secret' = IF IsSome(parsed)
                                     THEN update_token(secret, Unwrap(parsed)[1],
                                                       Unwrap(parsed)[2])
                                     ELSE secret
                        /\ token_writes' = IF IsSome(parsed) THEN Append(token_writes, op)
                                           ELSE token_writes
                        /\ handshake' = IF t.body \in TokenBodies THEN Append(handshake, op)
                                        ELSE handshake
                        /\ swallowed' = (swallowed \/ (op = "request_auth"
                                                        /\ t.body \notin TokenBodies))
                        /\ ret' = Returned(op, "Ok", << >>)
    /\ UNCHANGED <<built, oauth1_vars, store_vars>>

\* Plurk::request_auth and Plurk::verify_auth called by the user of the client,
\* from the send on
ExchangeResume == ExchangeReturns /\ UNCHANGED app_vars

\* a request that, like the exchanges, takes a token pair out of the body
RequestResume_harvesting ==
    /\ IsSome(in_flight)
    /\ Unwrap(in_flight).op = "request"
    /\ \E t \in ApiTransport :
           LET parsed == IF t.kind = "body" THEN parse_oauth_token(t.body) ELSE None
           IN  /\ resp' = Some(t)
               /\ in_flight' = None
               /\ secret' = IF IsSome(parsed)
                            THEN update_token(secret, Unwrap(parsed)[1], Unwrap(parsed)[2])
                            ELSE secret
               /\ ret' = Returned("request",
                                  IF t.kind = "body" THEN "Ok" ELSE "ReqwestError", t.body)
    /\ UNCHANGED <<token_writes, handshake, swallowed, built, oauth1_vars, store_vars, app_vars>>

\* Plurk::request from the send on: the Response or the transport's error
RequestReturns ==
    /\ IsSome(in_flight)
    /\ Unwrap(in_flight).op = "request"
    /\ \E t \in ApiTransport :
           /\ resp' = Some(t)
           /\ in_flight' = None
           /\ ret' = Returned("request", IF t.kind = "body" THEN "Ok" ELSE "ReqwestError",
                              t.body)
    /\ UNCHANGED <<secret, token_writes, handshake, swallowed, built, oauth1_vars, store_vars>>

\* Plurk::request called by the user of the client, from the send on
RequestResume == RequestReturns /\ UNCHANGED app_vars

\* Plurk::get_auth_url
GetAuthUrl ==
    /\ in_flight = None
    /\ ret' = Returned("get_auth_url", get_auth_url(secret).res, get_auth_url(secret).val)
    /\ UNCHANGED <<secret, in_flight, resp, token_writes, handshake, swallowed, built,
                   oauth1_vars, store_vars, app_vars>>

\* Plurk::is_auth
IsAuth ==
    /\ in_flight = None
    /\ ret' = Returned("is_auth", IF is_auth(secret) THEN "true" ELSE "false", << >>)
    /\ UNCHANGED <<secret, in_flight, resp, token_writes, handshake, swallowed, built,
                   oauth1_vars, store_vars, app_vars>>

\* format!("{}", plurk)
Fmt ==
    /\ in_flight = None
    /\ ret' = Returned("fmt", "Ok", Plurk_fmt(secret))
    /\ UNCHANGED <<secret, in_flight, resp, token_writes, handshake, swallowed, built,
                   oauth1_vars, store_vars, app_vars>>

Next ==
    \/ RequestAuth
    \/ VerifyAuth
    \/ Request
    \/ ExchangeResume
    \/ RequestResume
    \/ GetAuthUrl
    \/ IsAuth
    \/ Fmt

Spec == Init /\ [][Next]_vars

-----------------------------------------------------------------------------
(* Properties of the client                                                *)

\* the token pair a response body of TokenBodies carries
CarriedPair(body) ==
    IF body = Body_pair_rev THEN SecretPair(tB, sB) ELSE SecretPair(tA, sA)

ExpectedAuthorizePrefix ==
    <<"h","t","t","p","s",":","/","/","w","w","w",".","p","l","u","r","k",".","c","o","m","/",
      "O","A","u","t","h","/","a","u","t","h","o","r","i","z","e","?","o","a","u","t","h","_",
      "t","o","k","e","n","=">>

Exchanges == {"request_auth", "verify_auth"}

BuiltWithToken == IsSome(built.token_key) /\ IsSome(built.token_secret)

\* where pat occurs in s
Occurrences(s, pat) ==
    {i \in 1..(Len(s) - Len(pat) + 1) : SubSeq(s, i, i + Len(pat) - 1) = pat}

\* the header items of the form  name="..."  and  name="value"
HeaderCount(header, name) ==
    Cardinality(Occurrences(header, <<" ">> \o name \o <<"=", "\"">>))

HeaderHas(header, name) == HeaderCount(header, name) > 0

HeaderCarries(header, name, value) ==
    Occurrences(header, <<" ">> \o name \o <<"=", "\"">> \o value \o <<"\"">>) # {}

NameCount(pairs, name) == Cardinality({i \in 1..Len(pairs) : pairs[i][1] = name})

Supplied(query, name) == IsSome(query) /\ NameCount(Unwrap(query), name) > 0

\* C1: a client built without a token is not authorized until an exchange
\* has delivered a token pair and is authorized from then on, through the
\* request-token exchange and through the access-token exchange that
\* replaces the token; is_auth() reports exactly that, and after an exchange
\* that delivered a pair the credential holds that pair.
C1_TokenLifecycle ==
    /\ ~BuiltWithToken =>
          /\ is_auth(secret) <=> handshake # << >>
          /\ ret.op = "is_auth" =>
                 ret.res = IF handshake # << >> THEN "true" ELSE "false"
    /\ (/\ ret.op \in Exchanges
        /\ ret.res = "Ok"
        /\ IsSome(resp)
        /\ Unwrap(resp).body \in TokenBodies) =>
          /\ is_auth(secret)
          /\ Unwrap(secret.token) = CarriedPair(Unwrap(resp).body)

C1_Witness ==
    /\ ~BuiltWithToken
    /\ handshake = <<"request_auth", "verify_auth">>
    /\ ret = Returned("is_auth", "true", << >>)
    /\ Unwrap(secret.token) = SecretPair(tB, sB)

\* C2: get_auth_url() returns AuthError when no token is held and otherwise
\* https://www.plurk.com/OAuth/authorize?oauth_token= followed by the key of
\* the token held; the call leaves the credential as it was.
C2_AuthUrl ==
    /\ [](ret.op = "get_auth_url" =>
             IF IsSome(secret.token)
             THEN /\ ret.res = "Ok"
                  /\ ret.val = ExpectedAuthorizePrefix \o Unwrap(secret.token).key
             ELSE ret.res = "AuthError")
    /\ [][ret'.op = "get_auth_url" => secret' = secret]_vars

C2_Witness ==
    /\ handshake = <<"request_auth">>
    /\ ret.op = "get_auth_url"
    /\ ret.res = "Ok"
    /\ ret.val = ExpectedAuthorizePrefix \o tA

\* C3: when request_auth() or verify_auth() reads a body that does not carry
\* both oauth_token and oauth_token_secret, the call returns Ok and the
\* credential is what it was before the call.
C3_UnparsableBodyIsSilent ==
    [][(/\ IsSome(in_flight)
        /\ Unwrap(in_flight).op \in Exchanges
        /\ IsSome(resp')
        /\ Unwrap(resp').kind = "body"
        /\ Unwrap(resp').body \notin TokenBodies) =>
          /\ ret' = Returned(Unwrap(in_flight).op, "Ok", << >>)
          /\ secret' = secret]_vars

C3_Witness ==
    /\ ret = Returned("verify_auth", "Ok", << >>)
    /\ IsSome(resp)
    /\ Unwrap(resp).body = Body_key_only
    /\ handshake = <<"request_auth">>
    /\ Unwrap(secret.token) = SecretPair(tB, sB)

\* C4: in every state the signing key is the consumer secret, "&", and the
\* secret of the token held, or nothing after the "&" when none is held.
C4_SigningKey ==
    get_sign_secret(secret) =
        secret.consumer.secret \o <<"&">>
        \o (IF secret.token = None THEN << >> ELSE secret.token[1].secret)

C4_Witness ==
    /\ token_writes = <<"request_auth", "verify_auth">>
    /\ get_sign_secret(secret) = <<"c", "2", "&", "s", "B">>

\* C5: the token is written by the exchanges that received a token pair, in
\* their order, and by nothing else: a handshake of a request-token exchange
\* and an access-token exchange writes it twice, and no step of request(),
\* get_auth_url(), is_auth() or of signing changes the credential.
C5_TokenWrittenByExchangesOnly ==
    /\ [](token_writes = handshake)
    /\ [][(secret' # secret \/ token_writes' # token_writes) =>
             /\ IsSome(in_flight)
             /\ Unwrap(in_flight).op \in Exchanges
             /\ ret' = Returned(Unwrap(in_flight).op, "Ok", << >>)
             /\ token_writes' = Append(token_writes, Unwrap(in_flight).op)]_vars

C5_Witness ==
    /\ token_writes = <<"request_auth", "verify_auth">>
    /\ ret.op = "request"
    /\ ret.res = "Ok"
    /\ ret.val = Body_pair
    /\ Unwrap(secret.token) = SecretPair(tB, sB)

\* the parameter names the signer generates or derives from the credential
GeneratedNames ==
    {K_oauth_nonce, K_oauth_timestamp, K_oauth_signature_method, K_oauth_version,
     K_oauth_consumer_key, K_oauth_token}

\* C7: a caller's form parameter named like a generated or credential-derived
\* parameter appears in the signing set and in the header once, with the
\* caller's value.
C7_NoCollisionSurvives ==
    (IsSome(in_flight) /\ IsSome(Unwrap(in_flight).query)) =>
        LET q == Unwrap(Unwrap(in_flight).query)
            req == Unwrap(in_flight).req
        IN  \A i \in 1..Len(q) :
                q[i][1] \in GeneratedNames =>
                    /\ NameCount(req.signing_set, q[i][1]) = 1
                    /\ HeaderCount(req.header, q[i][1]) = 1
                    /\ HeaderCarries(req.header, q[i][1], q[i][2])

\* C8: the body sent is the caller's parameters without those named oauth_*,
\* the others in their order, as a receiver of the form decodes them; and
\* the oauth_* parameters taken out are carried by the header.
C8_BodyIsCallerParametersWithoutOauth ==
    (IsSome(in_flight) /\ IsSome(Unwrap(in_flight).query)) =>
        LET q == Unwrap(Unwrap(in_flight).query)
            req == Unwrap(in_flight).req
        IN  /\ IsSome(req.body)
            /\ urlencoded_from_str(Unwrap(req.body)) = FilterPrefix(q, K_oauth_, FALSE)
            /\ \A i \in 1..Len(q) :
                   StartsWith(q[i][1], K_oauth_) => HeaderCarries(req.header, q[i][1], q[i][2])

\* C9 (as the code has it): the header of a signed request carries
\* oauth_consumer_key exactly when the consumer key is not empty or the caller
\* supplied a parameter of that name, and oauth_token exactly when a token is
\* held or the caller supplied a parameter of that name.
C9_HeaderCredentialItems ==
    IsSome(in_flight) =>
        LET f == Unwrap(in_flight)
        IN  /\ HeaderHas(f.req.header, K_oauth_consumer_key)
                 <=> (Len(secret.consumer.key) # 0 \/ Supplied(f.query, K_oauth_consumer_key))
            /\ HeaderHas(f.req.header, K_oauth_token)
                 <=> (IsSome(secret.token) \/ Supplied(f.query, K_oauth_token))

C9_Witness ==
    /\ IsSome(in_flight)
    /\ Unwrap(in_flight).op = "verify_auth"
    /\ secret.consumer.key = << >>
    /\ IsSome(secret.token)
    /\ ~HeaderHas(Unwrap(in_flight).req.header, K_oauth_consumer_key)
    /\ HeaderCarries(Unwrap(in_flight).req.header, K_oauth_token, tA)

\* C9 as stated: the header always carries oauth_consumer_key, and carries
\* oauth_token exactly when a token is held.
C9_AsStated ==
    IsSome(in_flight) =>
        /\ HeaderHas(Unwrap(in_flight).req.header, K_oauth_consumer_key)
        /\ HeaderHas(Unwrap(in_flight).req.header, K_oauth_token) <=> IsSome(secret.token)

-----------------------------------------------------------------------------
(* The Oauth1 signer of oauth1.rs as a state machine                       *)

Uri1 ==
    <<"h","t","t","p","s",":","/","/","w","w","w",".","e","x","a","m","p","l","e",".","c","o",
      "m","/","A","P","I","/","f","o","o">>
Raw_ab == <<"a","=","1","&","b","=","2">>
Raw_ab_verifier ==
    <<"a","=","1","&","b","=","2","&","o","a","u","t","h","_","v","e","r","i","f","i","e","r",
      "=","5","5","6","6">>
Raw_callback_a ==
    <<"o","a","u","t","h","_","c","a","l","l","b","a","c","k","=","o","o","b","&","a","=","1">>
Raw_plus == <<"q","=","a","+","b","&","z">>
Callback2 == <<"a","/","b">>
K_oauth_unknown == <<"o","a","u","t","h","_","u","n","k","n","o","w","n">>
Raw_unknown ==
    <<"a","=","1","&","o","a","u","t","h","_","u","n","k","n","o","w","n","=","1","1","2">>

O1Secrets ==
    {Secret_new(c1, c2, None, None),
     Secret_update_token(Secret_new(c1, c2, None, None), t1, t2)}
O1Methods == {S_POST}
O1Uris == {Uri1}
O1Queries == {<< >>, Raw_ab, Raw_ab_verifier, Raw_callback_a, Raw_plus, Raw_unknown}
O1Callbacks == {V_oob, Callback2}
O1Verifiers == {Pin1}

\* the values Oauth1::sign can be called on, as far as sign reads them
O1Builders ==
    {[O1_new(s, nonce, ts) EXCEPT !.oauth_callback = cb, !.oauth_verifier = v] :
        s \in O1Secrets, nonce \in Nonces, ts \in Timestamps,
        cb \in {None} \cup {Some(x) : x \in O1Callbacks},
        v \in {None} \cup {Some(x) : x \in O1Verifiers}}

\* O1_signed_fields on every such value and every argument, computed once
O1SignedTable ==
    {<<b, {<<a, O1_signed_fields(b, a.method, a.uri, a.query)>> :
              a \in [method : O1Methods, uri : O1Uris, query : O1Queries]}>> :
        b \in O1Builders}

O1SignedFields(self, method, uri, query) ==
    LET b == [self EXCEPT !.oauth_signature = << >>, !.realm = None]
        a == [method |-> method, uri |-> uri, query |-> query]
    IN  IF b \in O1Builders /\ query \in O1Queries
        THEN LET row == (CHOOSE e \in O1SignedTable : e[1] = b)[2]
             IN  (CHOOSE e \in row : e[1] = a)[2]
        ELSE O1_signed_fields(self, method, uri, query)

\* a sign that keeps the explicit fields and promotes nothing from the query
O1_sign_no_promotion(self, method, uri, query) ==
    [self EXCEPT
        !.oauth_signature = O1_hmac_sha1_sign(O1_sign_base(self, method, uri, query),
                                              self.sign_key),
        !.realm = Some(uri)]

\* Oauth1::sign
O1_sign(self, method, uri, query) ==
    O1_sign_with(self, uri, O1SignedFields(self, method, uri, query))

InitOauth1 ==
    /\ secret = Secret_new(c1, c2, None, None)
    /\ built = [token_key |-> None, token_secret |-> None]
    /\ ret = Returned("new", "Ok", << >>)
    /\ in_flight = None
    /\ resp = None
    /\ token_writes = << >>
    /\ handshake = << >>
    /\ swallowed = FALSE
    /\ o1 = None
    /\ o1_in = None
    /\ o1_prev = None
    /\ disk = None
    /\ app = AppNotRunning

\* Oauth1::new(secret)
O1New ==
    /\ \E s \in O1Secrets, nonce \in Nonces, ts \in Timestamps :
           o1' = Some(O1_new(s, nonce, ts))
    /\ o1_in' = None
    /\ o1_prev' = None
    /\ UNCHANGED <<client_vars, store_vars, app_vars>>

\* .test_set_callback(v)
O1SetCallback ==
    /\ IsSome(o1)
    /\ \E v \in O1Callbacks : o1' = Some(test_set_callback(Unwrap(o1), v))
    /\ o1_in' = None
    /\ o1_prev' = None
    /\ UNCHANGED <<client_vars, store_vars, app_vars>>

\* .test_set_verifier(v)
O1SetVerifier ==
    /\ IsSome(o1)
    /\ \E v \in O1Verifiers : o1' = Some(test_set_verifier(Unwrap(o1), v))
    /\ o1_in' = None
    /\ o1_prev' = None
    /\ UNCHANGED <<client_vars, store_vars, app_vars>>

\* .test_set_nonce(v)
O1SetNonce ==
    /\ IsSome(o1)
    /\ \E v \in Nonces : o1' = Some(test_set_nonce(Unwrap(o1), v))
    /\ o1_in' = None
    /\ o1_prev' = None
    /\ UNCHANGED <<client_vars, store_vars, app_vars>>

\* .test_set_timestamp(v)
O1SetTimestamp ==
    /\ IsSome(o1)
    /\ \E v \in Timestamps : o1' = Some(test_set_timestamp(Unwrap(o1), v))
    /\ o1_in' = None
    /\ o1_prev' = None
    /\ UNCHANGED <<client_vars, store_vars, app_vars>>

\* .sign(method, uri, query): o1_prev keeps the value signed, o1_in the arguments
O1Sign ==
    /\ IsSome(o1)
    /\ \E method \in O1Methods, uri \in O1Uris, query \in O1Queries :
           /\ o1' = Some(O1_sign(Unwrap(o1), method, uri, query))
           /\ o1_in' = Some([method |-> method, uri |-> uri, query |-> query])
    /\ o1_prev' = o1
    /\ UNCHANGED <<client_vars, store_vars, app_vars>>

NextOauth1 ==
    \/ O1New
    \/ O1SetCallback
    \/ O1SetVerifier
    \/ O1SetNonce
    \/ O1SetTimestamp
    \/ O1Sign

SpecOauth1 == InitOauth1 /\ [][NextOauth1]_vars

-----------------------------------------------------------------------------
(* Properties of the Oauth1 signer                                         *)

\* the raw queries that are body with the pair name=value put into it
Embeddings(body, name, value) ==
    LET pair == name \o <<"=">> \o byte_serialize(value)
    IN  IF Len(body) = 0 THEN {pair}
        ELSE {body \o <<"&">> \o pair, pair \o <<"&">> \o body}

Names(raw) == {urlencoded_from_str(raw)[i][1] : i \in 1..Len(urlencoded_from_str(raw))}

\* signing self with the field set to None and the pair in the query gives
\* the signature and the header of signed
SameAsEmbedded(self, a, signed, raw) ==
    LET other == O1_sign(self, a.method, a.uri, raw)
    IN  /\ other.oauth_signature = signed.oauth_signature
        /\ O1_to_header(other) = O1_to_header(signed)

-----------------------------------------------------------------------------
(* Further properties of the client                                        *)

\* C11: when the send or the reading of the body fails in request_auth() or
\* verify_auth(), the call returns the transport's error and the credential
\* is what it was before the call.
C11_TransportFailurePropagates ==
    [][(/\ IsSome(in_flight)
        /\ Unwrap(in_flight).op \in Exchanges
        /\ IsSome(resp')
        /\ Unwrap(resp').kind \in {"send_err", "text_err"}) =>
          /\ ret' = Returned(Unwrap(in_flight).op, "ReqwestError", << >>)
          /\ secret' = secret
          /\ token_writes' = token_writes]_vars

C11_Witness ==
    /\ ret = Returned("verify_auth", "ReqwestError", << >>)
    /\ IsSome(resp)
    /\ Unwrap(resp).kind = "text_err"
    /\ handshake = <<"request_auth">>
    /\ Unwrap(secret.token) = SecretPair(tA, sA)

Expected_c1_Unauthorized ==
    <<"P","l","u","r","k"," ","A","P","I"," ","c","1"," ","(","U","n","a","u","t","h","o","r",
      "i","z","e","d",")">>

\* C12: as long as no exchange has written the token, the credential holds
\* a token, is_auth() is true and the client displays as Authorized exactly
\* when Plurk::new was given both the token key and the token secret; with
\* one of the two, or none, it holds no token and displays as Unauthorized.
C12_TokenIffBothParts ==
    token_writes = << >> =>
        /\ IsSome(secret.token) <=> BuiltWithToken
        /\ is_auth(secret) <=> BuiltWithToken
        /\ BuiltWithToken =>
               Unwrap(secret.token)
                   = SecretPair(Unwrap(built.token_key), Unwrap(built.token_secret))
        /\ ret.op = "is_auth" => (ret.res = "true" <=> BuiltWithToken)
        /\ ret.op = "fmt" =>
               ret.val = <<"P","l","u","r","k"," ","A","P","I"," ">> \o secret.consumer.key
                         \o (IF BuiltWithToken
                             THEN <<" ","(","A","u","t","h","o","r","i","z","e","d",")">>
                             ELSE <<" ","(","U","n","a","u","t","h","o","r","i","z","e","d",")">>)

C12_Witness ==
    /\ built = [token_key |-> Some(t1), token_secret |-> None]
    /\ token_writes = << >>
    /\ secret.token = None
    /\ ret = Returned("fmt", "Ok", Expected_c1_Unauthorized)

\* C15: the signing set, as it is serialised into the base string, is in
\* ascending byte-wise order of the keys, and entries with equal keys are in
\* ascending order of their values.
C15_SortedByKeyThenValue ==
    IsSome(in_flight) =>
        LET set == Unwrap(in_flight).req.signing_set
        IN  \A i \in 1..Len(set) : \A j \in (i + 1)..Len(set) :
                \/ StrLess(set[i][1], set[j][1])
                \/ set[i][1] = set[j][1] /\ ~StrLess(set[j][2], set[i][2])

\* name="value" for every pair, separated by comma and space
RECURSIVE ItemList(_)
ItemList(pairs) ==
    IF Len(pairs) = 0 THEN << >>
    ELSE pairs[1][1] \o <<"=", "\"">> \o pairs[1][2] \o <<"\"">>
         \o (IF Len(pairs) = 1 THEN << >> ELSE <<",", " ">> \o ItemList(Tail(pairs)))

\* where the item called name starts in the header, or 0
ItemAt(header, name) ==
    LET P == Occurrences(header, <<" ">> \o name \o <<"=", "\"">>)
    IN  IF P = {} THEN 0 ELSE CHOOSE i \in P : \A j \in P : i <= j

C17_TemporaryTokenFirst ==
    ~BuiltWithToken =>
        \A i \in 1..Len(token_writes) :
            token_writes[i] = "verify_auth" =>
                \E j \in 1..(i - 1) : token_writes[j] = "request_auth"

\* C19: signing only reads the credential. No step changes the consumer key
\* or the consumer secret; the steps that sign and send a request, and the
\* returns of request(), get_auth_url() and is_auth(), leave the whole
\* credential as it was; the token changes only in a step in which
\* request_auth() or verify_auth() returns.
C19_SigningOnlyReads ==
    [][/\ secret'.consumer = secret.consumer
       /\ IsSome(in_flight') => secret' = secret
       /\ ret'.op \in {"request", "get_auth_url", "is_auth"} => secret' = secret
       /\ secret'.token # secret.token => ret'.op \in Exchanges]_vars

C19_Witness ==
    /\ ret.op = "get_auth_url"
    /\ ret.res = "Ok"
    /\ token_writes = <<"request_auth", "verify_auth">>
    /\ secret = [consumer |-> SecretPair(c1, c2), token |-> Some(SecretPair(tA, sA))]
    /\ IsSome(resp)
    /\ Unwrap(resp).kind = "body"
    /\ Unwrap(resp).body = Body_pair

\* C20: token presence is monotonic. A credential that holds a token holds
\* one after every step, whether an exchange or a request succeeds, fails in
\* transport or returns a body without a pair; and is_auth() returns false
\* only while no exchange has written a token.
C20_TokenPresenceMonotonic ==
    /\ [][is_auth(secret) => is_auth(secret')]_vars
    /\ []((ret.op = "is_auth" /\ ret.res = "false") =>
              (token_writes = << >> /\ ~BuiltWithToken))

C20_Witness ==
    /\ ret = Returned("is_auth", "true", << >>)
    /\ token_writes = <<"request_auth">>
    /\ ~BuiltWithToken
    /\ IsSome(resp)
    /\ \/ Unwrap(resp).kind # "body"
       \/ Unwrap(resp).body \in OtherBodies

-----------------------------------------------------------------------------
(* The credential store of secret.rs as a state machine                    *)

KeyQuoted == <<"k", "\"", "\\", "1">>
SecretSlash == <<"\\", "s", "=", "\"">>

StoreConsumerKeys == {c1, KeyQuoted}
StoreTokens == {SecretPair(tA, sA), SecretPair(KeyQuoted, SecretSlash)}

InitSecret ==
    /\ \E ck \in StoreConsumerKeys, cs \in ConsumerSecrets, tk \in TokenKeys,
          ts \in TokenSecrets :
           /\ secret = Secret_new(ck, cs, tk, ts)
           /\ built = [token_key |-> tk, token_secret |-> ts]
    /\ ret = Returned("new", "Ok", << >>)
    /\ in_flight = None
    /\ resp = None
    /\ token_writes = << >>
    /\ handshake = << >>
    /\ swallowed = FALSE
    /\ o1 = None
    /\ o1_in = None
    /\ o1_prev = None
    /\ disk = None
    /\ app = AppNotRunning

\* Secret::update_token_mut(token_key, token_secret)
SecretUpdateToken ==
    /\ \E t \in StoreTokens : secret' = update_token_mut(secret, t.key, t.secret)
    /\ ret' = Returned("update_token_mut", "Ok", << >>)
    /\ UNCHANGED <<in_flight, resp, token_writes, handshake, swallowed, built, oauth1_vars,
                   store_vars, app_vars>>

\* Secret::to_toml(path): the text is written, or fs::write fails
ToToml ==
    /\ \E written \in BOOLEAN :
           IF written
           THEN /\ disk' = Some([text |-> toml_to_string(secret), of |-> secret])
                /\ ret' = Returned("to_toml", "Ok", << >>)
           ELSE /\ disk' = disk
                /\ ret' = Returned("to_toml", "IOError", << >>)
    /\ UNCHANGED <<secret, in_flight, resp, token_writes, handshake, swallowed, built,
                   oauth1_vars, app_vars>>

\* Secret::from_toml(path): the file is read and parsed into the credential
\* in hand, or fs::read_to_string or toml::from_str fails
FromToml ==
    /\ \E readable \in BOOLEAN :
           IF readable /\ IsSome(disk)
           THEN LET parsed == toml_from_str(Unwrap(disk).text)
                IN  /\ ret' = Returned("from_toml", parsed.res, << >>)
                    /\ secret' = IF parsed.res = "Ok" THEN Unwrap(parsed.val) ELSE secret
           ELSE /\ ret' = Returned("from_toml", "IOError", << >>)
                /\ secret' = secret
    /\ UNCHANGED <<in_flight, resp, token_writes, handshake, swallowed, built, oauth1_vars,
                   store_vars, app_vars>>

NextSecret ==
    \/ SecretUpdateToken
    \/ ToToml
    \/ FromToml

SpecSecret == InitSecret /\ [][NextSecret]_vars

\* C13: a credential reloaded with from_toml from what to_toml wrote has the
\* consumer key, the token presence, the token key and the signing key of
\* the credential that was written; and reading what to_toml wrote never
\* fails to parse.
C13_TomlRoundTrip ==
    ret.op = "from_toml" =>
        /\ ret.res \in {"Ok", "IOError"}
        /\ ret.res = "Ok" =>
               /\ IsSome(disk)
               /\ get_consumer_key(secret) = get_consumer_key(Unwrap(disk).of)
               /\ IsSome(secret.token) <=> IsSome(Unwrap(disk).of.token)
               /\ get_token_key(secret) = get_token_key(Unwrap(disk).of)
               /\ get_sign_secret(secret) = get_sign_secret(Unwrap(disk).of)

C13_Witness ==
    /\ ret = Returned("from_toml", "Ok", << >>)
    /\ IsSome(disk)
    /\ Unwrap(disk).of.consumer.key = KeyQuoted
    /\ Unwrap(disk).of.token = Some(SecretPair(KeyQuoted, SecretSlash))
    /\ get_sign_secret(secret) = c2 \o <<"&">> \o SecretSlash
    /\ get_token_key(secret) = Some(KeyQuoted)

-----------------------------------------------------------------------------
(* Further properties of the Oauth1 signer                                 *)

\* C14: a parameter of the query named oauth_unknown enters the signature
\* base string like any other parameter: the signature is the digest of a
\* base string that holds oauth_unknown=112, differs from the signature of
\* the same query without that parameter, and is the same when the same
\* value is signed again with the same arguments.
C14_UnknownOauthParameterIsSigned ==
    (IsSome(o1_in) /\ IsSome(o1_prev) /\ K_oauth_unknown \in Names(Unwrap(o1_in).query)) =>
        LET p == Unwrap(o1_prev)
            a == Unwrap(o1_in)
            signed == Unwrap(o1)
            base == O1_sign_base(p, a.method, a.uri, a.query)
            without == urlencoded_to_string(
                           FilterPrefix(urlencoded_from_str(a.query), K_oauth_unknown, FALSE))
        IN  /\ Occurrences(base, <<"o","a","u","t","h","_","u","n","k","n","o","w","n","%","3",
                                   "D","1","1","2">>) # {}
            /\ signed.oauth_signature = O1_hmac_sha1_sign(base, p.sign_key)
            /\ signed.oauth_signature # O1_sign(p, a.method, a.uri, without).oauth_signature
            /\ signed.oauth_signature = O1_sign(p, a.method, a.uri, a.query).oauth_signature

C14_Witness ==
    /\ IsSome(o1_in)
    /\ IsSome(o1_prev)
    /\ Unwrap(o1_in).query = Raw_unknown
    /\ Unwrap(o1_prev).oauth_token = Some(t1)
    /\ Unwrap(o1).oauth_signature # << >>
    /\ Unwrap(o1).oauth_signature
         # O1_sign(Unwrap(o1_prev), S_POST, Uri1, <<"a","=","1">>).oauth_signature

\* the header names of oauth1.rs in the order to_header writes them
O1_header_names ==
    <<K_oauth_callback, K_oauth_consumer_key, K_oauth_nonce, K_oauth_signature,
      K_oauth_signature_method, K_oauth_timestamp, K_oauth_token, K_oauth_verifier,
      K_oauth_version>>

\* C16 (the builder of oauth1.rs): after sign, to_header starts with
\* OAuth realm="<uri>", and the items present stand in strictly alphabetical
\* order of their names, oauth_signature included, with no trailing separator.
C16_Oauth1HeaderFormat ==
    (IsSome(o1) /\ IsSome(o1_in)) =>
        LET header == O1_to_header(Unwrap(o1))
            at(i) == ItemAt(header, O1_header_names[i])
        IN  /\ StartsWith(header, S_OAuth \o <<" ">> \o S_realm \o <<"\"">>
                                  \o Unwrap(o1_in).uri \o <<"\"", ",", " ">>)
            /\ header[Len(header)] = "\""
            /\ at(4) > 0
            /\ \A i \in 1..9 : \A j \in (i + 1)..9 :
                   /\ StrLess(O1_header_names[i], O1_header_names[j])
                   /\ (at(i) > 0 /\ at(j) > 0) => at(i) < at(j)

-----------------------------------------------------------------------------
(* main of app.rs as a state machine: the client is the one of Plurk::new, *)
(* and main stands at one of its calls on the client.                      *)

\* main after Plurk::new(...) on the command line's or the key file's values
InitApp ==
    /\ \E ck \in ConsumerKeys, cs \in ConsumerSecrets, tk \in TokenKeys, ts \in TokenSecrets :
           /\ secret = Secret_new(ck, cs, tk, ts)
           /\ built = [token_key |-> tk, token_secret |-> ts]
    /\ ret = Returned("new", "Ok", << >>)
    /\ in_flight = None
    /\ resp = None
    /\ token_writes = << >>
    /\ handshake = << >>
    /\ swallowed = FALSE
    /\ o1 = None
    /\ o1_in = None
    /\ o1_prev = None
    /\ disk = None
    /\ app = [pc |-> "is_auth", calls |-> << >>]

\* main goes to pc having made the call named
AppCalled(pc, call) == [pc |-> pc, calls |-> Append(app.calls, call)]

AppAt(pc) == [app EXCEPT !.pc = pc]

\* if !plurk.is_auth() { ... } else { plurk }
AppIsAuth ==
    /\ app.pc = "is_auth"
    /\ ret' = Returned("is_auth", IF is_auth(secret) THEN "true" ELSE "false", << >>)
    /\ app' = AppAt(IF is_auth(secret) THEN "request" ELSE "request_auth")
    /\ UNCHANGED <<secret, in_flight, resp, token_writes, handshake, swallowed, built,
                   oauth1_vars, store_vars>>

\* plurk.request_auth().await, up to the send
AppRequestAuth ==
    /\ app.pc = "request_auth"
    /\ \E nonce \in Nonces, ts \in Timestamps :
           Send("request_auth",
                [api |-> REQUEST_TOKEN_URL, query |-> Some(<< <<K_oauth_callback, V_oob>> >>),
                 nonce |-> nonce, timestamp |-> ts])
    /\ app' = AppCalled("request_auth_await", "request_auth")

\* a main that goes on whatever request_auth returned
AppRequestAuthReturns_unchecked ==
    /\ app.pc = "request_auth_await"
    /\ ExchangeReturns
    /\ app' = AppAt("get_auth_url")

\* plurk.request_auth().await?, from the send on
AppRequestAuthReturns ==
    /\ app.pc = "request_auth_await"
    /\ ExchangeReturns
    /\ app' = AppAt(IF ret'.res = "Ok" THEN "get_auth_url" ELSE "exit_err")

\* println!("Please access to: {}", plurk.get_auth_url()), the prompt and
\* the line read from stdin
AppGetAuthUrl ==
    /\ app.pc = "get_auth_url"
    /\ ret' = Returned("get_auth_url", get_auth_url(secret).res, get_auth_url(secret).val)
    /\ app' = AppCalled("verify_auth", "get_auth_url")
    /\ UNCHANGED <<secret, in_flight, resp, token_writes, handshake, swallowed, built,
                   oauth1_vars, store_vars>>

\* plurk.verify_auth(pin).await, up to the send
AppVerifyAuth ==
    /\ app.pc = "verify_auth"
    /\ \E pin \in Pins, nonce \in Nonces, ts \in Timestamps :
           Send("verify_auth",
                [api |-> ACCESS_TOKEN_URL, query |-> Some(<< <<K_oauth_verifier, pin>> >>),
                 nonce |-> nonce, timestamp |-> ts])
    /\ app' = AppCalled("verify_auth_await", "verify_auth")

\* plurk.verify_auth(pin).await?, from the send on
AppVerifyAuthReturns ==
    /\ app.pc = "verify_auth_await"
    /\ ExchangeReturns
    /\ app' = AppAt(IF ret'.res = "Ok" THEN "request" ELSE "exit_err")

\* plurk.request(cli.api, parameters, file_parameters).await, up to the send
AppRequest ==
    /\ app.pc = "request"
    /\ \E api \in Apis, query \in Queries, nonce \in Nonces, ts \in Timestamps :
           Send("request", [api |-> api, query |-> query, nonce |-> nonce, timestamp |-> ts])
    /\ app' = AppCalled("request_await", "request")

\* plurk.request(...).await?, from the send on, and the printing of the
\* response
AppRequestReturns ==
    /\ app.pc = "request_await"
    /\ RequestReturns
    /\ app' = AppAt(IF ret'.res = "Ok" THEN "exit" ELSE "exit_err")

NextApp ==
    \/ AppIsAuth
    \/ AppRequestAuth
    \/ AppRequestAuthReturns
    \/ AppGetAuthUrl
    \/ AppVerifyAuth
    \/ AppVerifyAuthReturns
    \/ AppRequest
    \/ AppRequestReturns

SpecApp == InitApp /\ [][NextApp]_vars

\* p is calls, or calls cut short
IsPrefix(p, calls) == Len(p) <= Len(calls) /\ SubSeq(calls, 1, Len(p)) = p

HandshakeFlow == <<"request_auth", "get_auth_url", "verify_auth", "request">>

\* C18: in main, a client built with a token makes no call but the API
\* request and sends no handshake request; a client built without one calls
\* request_auth, get_auth_url, verify_auth and the API request in that order;
\* and an error returned by request_auth or verify_auth ends main at once,
\* with no API request sent before or after it.
C18_CommandLineFlow ==
    /\ [](/\ BuiltWithToken =>
                /\ IsPrefix(app.calls, <<"request">>)
                /\ IsSome(in_flight) => Unwrap(in_flight).op = "request"
          /\ ~BuiltWithToken => IsPrefix(app.calls, HandshakeFlow)
          /\ (ret.op \in Exchanges /\ ret.res \notin {"Ok", "Pending"}) =>
                /\ app.pc = "exit_err"
                /\ \A i \in 1..Len(app.calls) : app.calls[i] # "request")
    /\ [][app.pc \notin {"exit", "exit_err"}]_vars

C18_Witness ==
    /\ ~BuiltWithToken
    /\ app.pc = "exit"
    /\ app.calls = HandshakeFlow
    /\ token_writes = <<"request_auth", "verify_auth">>
    /\ ret.op = "request"

\* the other two runs of main: the handshake skipped, and a run ended by
\* verify_auth's error
C18_WitnessSkipped ==
    /\ BuiltWithToken
    /\ app.pc = "exit"
    /\ app.calls = <<"request">>

C18_WitnessEnded ==
    /\ app.pc = "exit_err"
    /\ app.calls = <<"request_auth", "get_auth_url", "verify_auth">>
    /\ ret = Returned("verify_auth", "ReqwestError", << >>)

====
